---- MODULE Spec2Model ----
(***************************************************************************)
(* FlightBot (src/main.py): a console chat loop that extracts a departure  *)
(* city and a time of day from the accumulated text of a query, asks for   *)
(* what is missing, fetches flights per location code from the provider    *)
(* (two pages at most) through a process-wide cache, and groups the        *)
(* combined list by departure airport.                                     *)
(*                                                                         *)
(* Strings are TLA+ strings; substring containment, lower-casing, the      *)
(* cache-key format and the hour of an ISO timestamp are computed on the   *)
(* characters.  One action is one step of chatbot() between two blocking   *)
(* calls: input() and requests.get().                                      *)
(***************************************************************************)
EXTENDS Integers, Sequences, FiniteSets, TLC

\* ------------------------------------------------------------------ bounds
MaxLines == 4        \* user lines read in a session, the closing one aside
MaxPageLen == 1      \* records in one provider page

\* ------------------------------------------------------- program constants
max_pages_three == 2 + 1        \* a third page allowed
max_pages == 2
PageLimit == 100
None == "None"                 \* str(None), also the absent time bucket
Missing == "<missing>"         \* a key that a provider record does not have

city_to_iata ==
  << [city |-> "Delhi", iata |-> "DEL"],
     [city |-> "Mumbai", iata |-> "BOM"],
     [city |-> "Bangalore", iata |-> "BLR"] >>

\* ------------------------------------------------------------ string tools
UpperChars == "ABCDEFGHIJKLMNOPQRSTUVWXYZ"
LowerChars == "abcdefghijklmnopqrstuvwxyz"
DigitChars == "0123456789"

CharAt(s, i) == SubSeq(s, i, i)

UpperSet == {CharAt(UpperChars, i) : i \in 1..26}
LowerMap ==
  [c \in UpperSet |-> CharAt(LowerChars, CHOOSE i \in 1..26 : CharAt(UpperChars, i) = c)]

LowerChar(c) == IF c \in UpperSet THEN LowerMap[c] ELSE c

RECURSIVE lower(_)
lower(s) == IF s = "" THEN "" ELSE LowerChar(CharAt(s, 1)) \o lower(SubSeq(s, 2, Len(s)))

\* Python's `pat in text`
Contains(pat, text) ==
  \E i \in 0..(Len(text) - Len(pat)) : SubSeq(text, i + 1, i + Len(pat)) = pat

DigitVal(c) == (CHOOSE i \in 1..10 : CharAt(DigitChars, i) = c) - 1

RECURSIVE Join(_, _)
Join(sep, parts) ==
  IF parts = <<>> THEN ""
  ELSE IF Len(parts) = 1 THEN parts[1]
  ELSE parts[1] \o sep \o Join(sep, Tail(parts))

RECURSIVE Flatten(_)
Flatten(ss) == IF ss = <<>> THEN <<>> ELSE ss[1] \o Flatten(Tail(ss))

\* ---------------------------------------------------------------- extractor
CityMatches(e, text) == Contains(lower(e.city), text) \/ Contains(lower(e.iata), text)

RECURSIVE CitiesFrom(_, _)
CitiesFrom(table, text) ==
  IF table = <<>> THEN <<>>
  ELSE (IF CityMatches(table[1], text) THEN <<table[1].city>> ELSE <<>>)
       \o CitiesFrom(Tail(table), text)

parse_request_text(raw_text) == CitiesFrom(city_to_iata, lower(raw_text))

\* the keywords tested in the opposite order
extract_entities_night_first(raw_text) ==
  LET text == lower(raw_text) IN
  IF Contains("night", text) THEN "night"
  ELSE IF Contains("afternoon", text) THEN "afternoon"
  ELSE IF Contains("morning", text) THEN "morning"
  ELSE None

extract_entities(raw_text) ==
  LET text == lower(raw_text) IN
  IF Contains("morning", text) THEN "morning"
  ELSE IF Contains("afternoon", text) THEN "afternoon"
  ELSE IF Contains("night", text) THEN "night"
  ELSE None

\* ---------------------------------------------------------------- evaluator
\* the two appends in the opposite order
missing_fields_time_first(cities, time) ==
  (IF time = None THEN <<"departure time (morning/afternoon/night)">> ELSE <<>>)
  \o (IF cities = <<>> THEN <<"departure city">> ELSE <<>>)

missing_fields(cities, time) ==
  (IF cities = <<>> THEN <<"departure city">> ELSE <<>>)
  \o (IF time = None THEN <<"departure time (morning/afternoon/night)">> ELSE <<>>)

\* the evaluator asking only when the city is missing
solution_evaluation_city_only(cities, time, old_question) ==
  IF cities = <<>>
  THEN [needed |-> TRUE,
        question |-> "Could you please specify "
                     \o Join(", ", missing_fields(cities, time)) \o "?"]
  ELSE [needed |-> FALSE, question |-> old_question]

\* returns the new (clarification_needed, clarifying_question)
solution_evaluation(cities, time, old_question) ==
  LET mf == missing_fields(cities, time) IN
  IF mf # <<>>
  THEN [needed |-> TRUE,
        question |-> "Could you please specify " \o Join(", ", mf) \o "?"]
  ELSE [needed |-> FALSE, question |-> old_question]

\* --------------------------------------------------------------- normalizer
Lookup(city) ==
  IF \E i \in 1..Len(city_to_iata) : city_to_iata[i].city = city
  THEN city_to_iata[CHOOSE i \in 1..Len(city_to_iata) : city_to_iata[i].city = city].iata
  ELSE None

RECURSIVE normalize_fields(_)
normalize_fields(cities) ==
  IF cities = <<>> THEN <<>>
  ELSE (IF Lookup(cities[1]) # None THEN <<Lookup(cities[1])>> ELSE <<>>)
       \o normalize_fields(Tail(cities))

\* -------------------------------------------------------------- time filter
\* datetime.fromisoformat(...).hour: the two digits after the "T"
IsoHour(sched) == 10 * DigitVal(CharAt(sched, 12)) + DigitVal(CharAt(sched, 13))

NoSched(f) == f.dep_scheduled = Missing \/ f.dep_scheduled = ""

\* the lower ends of the buckets excluded
InBucket_open_below(hour, time_bucket) ==
  \/ time_bucket = "morning" /\ 5 < hour /\ hour < 12
  \/ time_bucket = "afternoon" /\ 12 < hour /\ hour < 17
  \/ time_bucket = "night" /\ (hour > 17 \/ hour < 5)

InBucket(hour, time_bucket) ==
  \/ time_bucket = "morning" /\ 5 <= hour /\ hour < 12
  \/ time_bucket = "afternoon" /\ 12 <= hour /\ hour < 17
  \/ time_bucket = "night" /\ (hour >= 17 \/ hour < 5)

KeepFlight(f, time_bucket) ==
  /\ ~NoSched(f)
  /\ InBucket(IsoHour(f.dep_scheduled), time_bucket)

RECURSIVE filter_flights_by_time(_, _)
filter_flights_by_time(flights, time_bucket) ==
  IF flights = <<>> THEN <<>>
  ELSE (IF KeepFlight(flights[1], time_bucket) THEN <<flights[1]>> ELSE <<>>)
       \o filter_flights_by_time(Tail(flights), time_bucket)

\* --------------------------------------------------------------- aggregator
WellFormed(f) ==
  /\ f.dep_airport # Missing
  /\ f.airline_name # Missing
  /\ f.flight_iata # Missing
  /\ f.dep_scheduled # Missing
  /\ f.arr_airport # Missing

Entry(f) ==
  [airline |-> f.airline_name, flight_iata |-> f.flight_iata,
   departure |-> f.dep_scheduled, arrival |-> f.arr_airport]

\* an entry equal to one already in the group left out
AddEntry_dedupe(groups, origin, entry) ==
  IF \E g \in 1..Len(groups) : groups[g].origin = origin
  THEN [g \in 1..Len(groups) |->
          IF groups[g].origin = origin
             /\ ~\E e \in 1..Len(groups[g].entries) : groups[g].entries[e] = entry
          THEN [groups[g] EXCEPT !.entries = Append(@, entry)]
          ELSE groups[g]]
  ELSE Append(groups, [origin |-> origin, entries |-> <<entry>>])

\* merged_output[origin].append(entry), a new origin going to the end
AddEntry(groups, origin, entry) ==
  IF \E g \in 1..Len(groups) : groups[g].origin = origin
  THEN [g \in 1..Len(groups) |->
          IF groups[g].origin = origin
          THEN [groups[g] EXCEPT !.entries = Append(@, entry)]
          ELSE groups[g]]
  ELSE Append(groups, [origin |-> origin, entries |-> <<entry>>])

RECURSIVE Merge(_, _)
Merge(flights, groups) ==
  IF flights = <<>> THEN [kind |-> "result", text |-> "", groups |-> groups]
  ELSE IF ~WellFormed(flights[1])
       THEN [kind |-> "KeyError", text |-> "", groups |-> <<>>]
       ELSE Merge(Tail(flights), AddEntry(groups, flights[1].dep_airport, Entry(flights[1])))

complete_payload(flights_data) ==
  IF flights_data = <<>>
  THEN [kind |-> "result", text |-> "No flights found.", groups |-> <<>>]
  ELSE Merge(flights_data, <<>>)

\* ------------------------------------------------------------------- cache
\* the key without the bucket
cache_key_code_only(iata, time) == iata

cache_key(iata, time) == iata \o "_" \o time

\* state.results.get("flights", []); results is <<>> while the key is absent
GetFlights(results) == IF results = <<>> THEN <<>> ELSE results[1]

retrieve_from_cache(results, cache, key) ==
  IF key \in DOMAIN cache THEN <<cache[key]>> ELSE results

\* an empty list not stored
store_answer_nonempty(results, cache, key) ==
  IF GetFlights(results) = <<>> THEN cache
  ELSE [k \in (DOMAIN cache) \cup {key} |-> IF k = key THEN GetFlights(results) ELSE cache[k]]

store_answer(results, cache, key) ==
  [k \in (DOMAIN cache) \cup {key} |-> IF k = key THEN GetFlights(results) ELSE cache[k]]

\* ---------------------------------------------------------------- provider
\* What the provider may send back for dep_iata = iata: records of that
\* departure airport, a complete one in the morning and one at night that
\* lacks airline.name.
Rec(iata, sched, airline) ==
  [dep_iata |-> iata, dep_airport |-> iata \o " Intl", dep_scheduled |-> sched,
   airline_name |-> airline, flight_iata |-> "AI1", arr_airport |-> "Goa"]

ProviderRecords(iata) ==
  { Rec(iata, "2024-05-01T06:00:00+00:00", "Air India"),
    Rec(iata, "2024-05-01T20:30:00+00:00", Missing) }

RECURSIVE SeqsUpTo(_, _)
SeqsUpTo(S, n) ==
  IF n = 0 THEN {<<>>}
  ELSE LET shorter == SeqsUpTo(S, n - 1)
       IN shorter \cup {Append(s, x) : s \in {t \in shorter : Len(t) = n - 1}, x \in S}

Pages(iata) == SeqsUpTo(ProviderRecords(iata), MaxPageLen)

\* what the user may type
Inputs == {"Delhi", "del to BOM", "Morning", "night", "hello", "exit", "QUIT"}

\* -------------------------------------------------------------------- state
VARIABLES
  pc,                    \* "input", "request", "closed", "crashed"
  state,                 \* the WorkflowState, state.live = FALSE for None
  cached_flights,        \* the module-level cache
  idx,                   \* position of the for loop in iatas
  page,                  \* page of the while loop
  flights_data,          \* records accumulated for the current code
  all_flights_combined,  \* the combined list
  out,                   \* the last text printed
  reqlog,                \* history: provider requests of the current query
  trace,                 \* history: one entry per iteration of the for loop
  query,                 \* history: the query the fetch engine last ran for
  lines,                 \* history: lines read so far
  line_in,               \* history: the line read last
  t_pc,                  \* pure functions: "ready", then "done"
  t_hours,               \* what t_in was built from: hours (-1 for none) or words
  t_in,                  \* the records handed to the function
  t_bucket,              \* the bucket handed to filter_flights_by_time
  t_out                  \* what the function returned

harness == <<t_pc, t_hours, t_in, t_bucket, t_out>>

vars == <<pc, state, cached_flights, idx, page, flights_data,
          all_flights_combined, out, reqlog, trace, query, lines, line_in, harness>>

NoState ==
  [live |-> FALSE, raw_text |-> "", cities |-> <<>>, time |-> None,
   iatas |-> <<>>, results |-> <<>>,
   clarification_needed |-> FALSE, clarifying_question |-> ""]

NoOut == [kind |-> "none", text |-> "", groups |-> <<>>]
NoQuery == [iatas |-> <<>>, time |-> None, flights |-> <<>>, done |-> FALSE, result |-> NoOut]

HarnessIdle ==
  /\ t_pc = "idle"
  /\ t_hours = <<>>
  /\ t_in = <<>>
  /\ t_bucket = None
  /\ t_out = <<>>

ChatInit ==
  /\ pc = "input"
  /\ state = NoState
  /\ cached_flights = << >>
  /\ idx = 0
  /\ page = 0
  /\ flights_data = <<>>
  /\ all_flights_combined = <<>>
  /\ out = NoOut
  /\ reqlog = <<>>
  /\ trace = <<>>
  /\ query = NoQuery
  /\ lines = 0
  /\ line_in = ""

Init == ChatInit /\ HarnessIdle

\* ----------------------------------------------------- execute_api_calls
\* history entry of one iteration of `for iata in iatas`
TraceEntry(iata, key, cache, appended, fetched) ==
  [iata |-> iata, key |-> key,
   present |-> key \in DOMAIN cache,
   cached |-> IF key \in DOMAIN cache THEN cache[key] ELSE <<>>,
   fetched |-> fetched, nreq |-> 0, nerr |-> 0, raw |-> <<>>, appended |-> appended,
   stored |-> FALSE]

\* Lines 93-99 from the head of iteration i on: the iterations that end in
\* `continue`, up to the first iteration that reaches the while loop or to
\* the end of the list.
RECURSIVE RunLoop(_, _, _, _, _, _, _)
RunLoop(i, iatas, time, results, combined, cache, tr) ==
  IF i > Len(iatas)
  THEN [at |-> "end", idx |-> i, results |-> results, combined |-> combined, trace |-> tr]
  ELSE LET key == cache_key(iatas[i], time)
           res1 == retrieve_from_cache(results, cache, key)
           flights == GetFlights(res1)
       IN IF flights # <<>>
          THEN RunLoop(i + 1, iatas, time, res1, combined \o flights, cache,
                       Append(tr, TraceEntry(iatas[i], key, cache, flights, FALSE)))
          ELSE [at |-> "while", idx |-> i, results |-> res1, combined |-> combined,
                trace |-> Append(tr, TraceEntry(iatas[i], key, cache, <<>>, TRUE))]

\* line 183: `state = None`
Reset_keep(st) == st
Reset(st) == NoState

\* The step after RunLoop: either wait for the first page of code r.idx, or
\* lines 127, 179-183: keep the combined list, aggregate, print, reset.
Continue(r, st) ==
  IF r.at = "while"
  THEN /\ pc' = "request"
       /\ state' = [st EXCEPT !.results = r.results]
       /\ idx' = r.idx
       /\ page' = 1
       /\ flights_data' = <<>>
       /\ all_flights_combined' = r.combined
       /\ trace' = r.trace
       /\ query' = [iatas |-> st.iatas, time |-> st.time, flights |-> <<>>, done |-> FALSE,
                    result |-> NoOut]
       /\ UNCHANGED out
  ELSE LET result == complete_payload(r.combined) IN
       \* the locals of execute_api_calls end with the call
       /\ idx' = 0
       /\ page' = 0
       /\ flights_data' = <<>>
       /\ all_flights_combined' = <<>>
       /\ trace' = r.trace
       /\ query' = [iatas |-> st.iatas, time |-> st.time, flights |-> r.combined, done |-> TRUE,
                    result |-> result]
       /\ out' = result
       /\ IF result.kind = "KeyError"
          THEN /\ pc' = "crashed"
               /\ state' = [st EXCEPT !.results = <<r.combined>>]
          ELSE /\ pc' = "input"
               /\ state' = Reset(st)

\* ------------------------------------------------------------------ chatbot
\* the comparison without .lower()
IsExit_case_sensitive(line) == line \in {"exit", "quit"}

IsExit(line) == lower(line) \in {"exit", "quit"}

MayRead(line) ==
  /\ pc = "input"
  /\ line \in Inputs
  /\ lines < MaxLines

\* raw_text replaced by the new line instead of extended by it
AfterNodes_replace(line) ==
  LET raw == line
      st0 == IF state.live THEN state ELSE [NoState EXCEPT !.live = TRUE]
      cs == parse_request_text(raw)
      tm == extract_entities(raw)
      ev == solution_evaluation(cs, tm, st0.clarifying_question)
  IN [st0 EXCEPT !.raw_text = raw, !.cities = cs, !.time = tm,
                 !.clarification_needed = ev.needed,
                 !.clarifying_question = ev.question]

\* lines 159-169: the state after the three deterministic nodes
AfterNodes(line) ==
  LET raw == IF state.live THEN state.raw_text \o " " \o line ELSE line
      st0 == IF state.live THEN state ELSE [NoState EXCEPT !.live = TRUE]
      cs == parse_request_text(raw)
      tm == extract_entities(raw)
      ev == solution_evaluation(cs, tm, st0.clarifying_question)
  IN [st0 EXCEPT !.raw_text = raw, !.cities = cs, !.time = tm,
                 !.clarification_needed = ev.needed,
                 !.clarifying_question = ev.question]

\* lines 155-157
Exit(line) ==
  /\ pc = "input"
  /\ UNCHANGED harness
  /\ line \in Inputs
  /\ IsExit(line)
  /\ pc' = "closed"
  /\ out' = [kind |-> "goodbye", text |-> "Goodbye!", groups |-> <<>>]
  /\ line_in' = line
  /\ UNCHANGED <<state, cached_flights, idx, page, flights_data,
                 all_flights_combined, reqlog, trace, query, lines>>

\* the turn without the `continue` of line 173: the remaining nodes run
Clarify_falls_through(line) ==
  /\ MayRead(line)
  /\ UNCHANGED harness
  /\ ~IsExit(line)
  /\ AfterNodes(line).clarification_needed
  /\ LET st == [AfterNodes(line) EXCEPT !.iatas = normalize_fields(AfterNodes(line).cities)]
     IN Continue(RunLoop(1, st.iatas, st.time, st.results, <<>>, cached_flights, <<>>),
                 st)
  /\ reqlog' = <<>>
  /\ lines' = lines + 1
  /\ line_in' = line
  /\ UNCHANGED cached_flights

\* lines 159-173: a turn that ends with the clarifying question
Clarify(line) ==
  /\ MayRead(line)
  /\ UNCHANGED harness
  /\ ~IsExit(line)
  /\ AfterNodes(line).clarification_needed
  /\ state' = AfterNodes(line)
  /\ out' = [kind |-> "prompt", text |-> AfterNodes(line).clarifying_question, groups |-> <<>>]
  /\ lines' = lines + 1
  /\ line_in' = line
  /\ reqlog' = <<>>
  /\ trace' = <<>>
  /\ query' = NoQuery
  /\ UNCHANGED <<pc, cached_flights, idx, page, flights_data, all_flights_combined>>

\* lines 159-183: a turn that finds nothing missing and runs the remaining
\* nodes up to the first provider request or, without one, to the reset
Proceed(line) ==
  /\ MayRead(line)
  /\ UNCHANGED harness
  /\ ~IsExit(line)
  /\ ~AfterNodes(line).clarification_needed
  /\ LET st == [AfterNodes(line) EXCEPT !.iatas = normalize_fields(AfterNodes(line).cities)]
     IN Continue(RunLoop(1, st.iatas, st.time, st.results, <<>>, cached_flights, <<>>),
                 st)
  /\ reqlog' = <<>>
  /\ lines' = lines + 1
  /\ line_in' = line
  /\ UNCHANGED cached_flights

\* lines 123-125 and on: the while loop of code idx is over with records fd
EndWhile(fd, tr) ==
  LET key == cache_key(state.iatas[idx], state.time)
      res1 == <<fd>>
      cache1 == store_answer(res1, cached_flights, key)
      tr1 == [tr EXCEPT ![Len(tr)].appended = fd, ![Len(tr)].stored = TRUE]
  IN /\ cached_flights' = cache1
     /\ Continue(RunLoop(idx + 1, state.iatas, state.time, res1,
                         all_flights_combined \o fd, cache1, tr1),
                 state)
     /\ UNCHANGED <<lines, line_in>>

Request == [iata |-> state.iatas[idx], limit |-> PageLimit, offset |-> (page - 1) * PageLimit]

\* a RequestException that goes on to the next page instead of `break`
RespondError_next_page ==
  /\ pc = "request"
  /\ UNCHANGED harness
  /\ reqlog' = Append(reqlog, Request)
  /\ LET tr == [trace EXCEPT ![Len(trace)].nreq = @ + 1, ![Len(trace)].nerr = @ + 1]
     IN IF page + 1 <= max_pages
        THEN /\ page' = page + 1
             /\ trace' = tr
             /\ UNCHANGED <<pc, state, cached_flights, idx, flights_data,
                            all_flights_combined, out, query, lines, line_in>>
        ELSE EndWhile(flights_data, tr)

\* lines 106-113: the request raises a RequestException
RespondError ==
  /\ pc = "request"
  /\ UNCHANGED harness
  /\ reqlog' = Append(reqlog, Request)
  /\ EndWhile(flights_data, [trace EXCEPT ![Len(trace)].nreq = @ + 1,
                                           ![Len(trace)].nerr = @ + 1])

\* lines 106-121: the request returns a page
RespondData(raw) ==
  /\ pc = "request"
  /\ UNCHANGED harness
  /\ raw \in Pages(state.iatas[idx])
  /\ reqlog' = Append(reqlog, Request)
  /\ LET data == IF state.time # None THEN filter_flights_by_time(raw, state.time) ELSE raw
         tr == [trace EXCEPT ![Len(trace)].nreq = @ + 1, ![Len(trace)].raw = @ \o raw]
     IN IF data = <<>>
        THEN EndWhile(flights_data, tr)
        ELSE IF page + 1 <= max_pages
             THEN /\ flights_data' = flights_data \o data
                  /\ page' = page + 1
                  /\ trace' = tr
                  /\ UNCHANGED <<pc, state, cached_flights, idx, all_flights_combined,
                                 out, query, lines, line_in>>
             ELSE EndWhile(flights_data \o data, tr)

Codes == {city_to_iata[i].iata : i \in 1..Len(city_to_iata)}

Next ==
  \/ \E line \in Inputs : Exit(line)
  \/ \E line \in Inputs : Clarify(line)
  \/ \E line \in Inputs : Proceed(line)
  \/ RespondError
  \/ \E raw \in UNION {Pages(c) : c \in Codes} : RespondData(raw)

Spec == Init /\ [][Next]_vars

\* ------------------------------------------- the time filter on its own
MaxFilterLen == 2    \* records in a list handed to the filter

\* a provider timestamp at hour h, in the two forms the provider uses
Stamp(h) ==
  LET hh == CharAt(DigitChars, (h \div 10) + 1) \o CharAt(DigitChars, (h % 10) + 1)
  IN IF h % 2 = 0 THEN "2024-05-01T" \o hh \o ":00:00Z"
     ELSE "2024-05-01T" \o hh \o ":59:00+05:30"

\* the record of a flight at hour h; -1: no scheduled departure, -2: empty
FlightAt(h) ==
  Rec("DEL", IF h = -1 THEN Missing ELSE IF h = -2 THEN "" ELSE Stamp(h), "Air India")

FilterInit ==
  /\ ChatInit
  /\ t_pc = "ready"
  /\ t_hours \in SeqsUpTo((-2)..23, MaxFilterLen)
  /\ t_in = [i \in 1..Len(t_hours) |-> FlightAt(t_hours[i])]
  /\ t_bucket \in {"morning", "afternoon", "night"}
  /\ t_out = <<>>

ApplyFilter ==
  /\ t_pc = "ready"
  /\ t_out' = filter_flights_by_time(t_in, t_bucket)
  /\ t_pc' = "done"
  /\ UNCHANGED <<t_hours, t_in, t_bucket>>
  /\ UNCHANGED <<pc, state, cached_flights, idx, page, flights_data,
                 all_flights_combined, out, reqlog, trace, query, lines, line_in>>

FilterNext == ApplyFilter

SpecFilter == FilterInit /\ [][FilterNext]_vars

\* --------------------------------------------- the aggregator on its own
MaxAggLen == 3       \* records in a list handed to the aggregator

\* records of three departure airports, two flights each, and one record
\* that lacks airline.name
AggRecords ==
  { [Rec(c, "2024-05-01T06:00:00+00:00", "Air India") EXCEPT !.flight_iata = n] :
      c \in Codes, n \in {"AI1", "AI2"} }
  \cup { Rec("DEL", "2024-05-01T06:00:00+00:00", Missing) }

AggInit ==
  /\ ChatInit
  /\ t_pc = "ready"
  /\ t_hours = <<>>
  /\ t_in \in SeqsUpTo(AggRecords, MaxAggLen)
  /\ t_bucket = None
  /\ t_out = <<>>

ApplyAggregate ==
  /\ t_pc = "ready"
  /\ t_out' = complete_payload(t_in)
  /\ t_pc' = "done"
  /\ UNCHANGED <<t_hours, t_in, t_bucket>>
  /\ UNCHANGED <<pc, state, cached_flights, idx, page, flights_data,
                 all_flights_combined, out, reqlog, trace, query, lines, line_in>>

AggNext == ApplyAggregate

SpecAgg == AggInit /\ [][AggNext]_vars

\* ---------------------------------------------- the extractor on its own
MaxWords == 3        \* words in an accumulated text

Words == {"Morning", "afternoon", "NIGHT", "Delhi", "bom", "please"}

\* t_out is the context of a WorkflowState whose raw_text is t_in, t_hours
\* the words t_in was typed from, t_bucket the outcome of each run
ExtractInit ==
  /\ ChatInit
  /\ t_pc = "ready"
  /\ t_hours \in SeqsUpTo(Words, MaxWords)
  /\ t_in = Join(" ", t_hours)
  /\ t_bucket = <<>>
  /\ t_out = [raw_text |-> t_in, cities |-> <<>>, time |-> None]

\* parse_request_text(state) and extract_entities(state), once more each time
ApplyExtract ==
  /\ t_pc \in {"ready", "once"}
  /\ LET cs == parse_request_text(t_out.raw_text)
         tm == extract_entities(t_out.raw_text)
     IN /\ t_out' = [t_out EXCEPT !.cities = cs, !.time = tm]
        /\ t_bucket' = Append(t_bucket, [cities |-> cs, time |-> tm])
  /\ t_pc' = IF t_pc = "ready" THEN "once" ELSE "twice"
  /\ UNCHANGED <<t_hours, t_in>>
  /\ UNCHANGED <<pc, state, cached_flights, idx, page, flights_data,
                 all_flights_combined, out, reqlog, trace, query, lines, line_in>>

ExtractNext == ApplyExtract

SpecExtract == ExtractInit /\ [][ExtractNext]_vars

\* =============================================================== properties
FetchDone == query.done
Positions == 1..Len(trace)

\* record f has its entry in the printed groups
HasEntry(f, groups) ==
  \E g \in 1..Len(groups) :
    /\ groups[g].origin = f.dep_airport
    /\ \E e \in 1..Len(groups[g].entries) : groups[g].entries[e] = Entry(f)

\* C1: when execute_api_calls has run, the combined list is the
\* concatenation, in code order, of one sub-list per code: the cache entry
\* of (code, bucket) if the key was in the cache at the code's turn, else the
\* freshly fetched, time-filtered records of that code.
C1_OneSublistPerCode ==
  FetchDone =>
    /\ Len(trace) = Len(query.iatas)
    /\ \A i \in Positions :
         /\ trace[i].iata = query.iatas[i]
         /\ trace[i].present => trace[i].appended = trace[i].cached
         /\ ~trace[i].present =>
              /\ trace[i].fetched
              /\ trace[i].appended = filter_flights_by_time(trace[i].raw, query.time)
         /\ \A k \in 1..Len(trace[i].appended) :
              trace[i].appended[k].dep_iata = trace[i].iata
    /\ query.flights = Flatten([i \in Positions |-> trace[i].appended])

\* C2: every code whose cache key has no entry when its turn in the loop
\* comes gets at least one provider request in that query.
C2_MissIsRequested ==
  FetchDone => \A i \in Positions : ~trace[i].present => trace[i].nreq >= 1

\* C3: a fetch for a (code, bucket) that was fetched before in the process
\* returns the cached list and issues no provider request.
C3_CacheIdempotence ==
  FetchDone =>
    \A i \in Positions :
      trace[i].present => trace[i].nreq = 0 /\ trace[i].appended = trace[i].cached

\* C4: in one query a code gets at most 2 provider requests, at offsets 0
\* and 100 with limit 100, so at most 200 raw records are asked for.
RequestsFor(c) == SelectSeq(reqlog, LAMBDA r : r.iata = c)

RECURSIVE SumLimits(_)
SumLimits(rs) == IF rs = <<>> THEN 0 ELSE rs[1].limit + SumLimits(Tail(rs))

C4_PaginationCap ==
  /\ \A c \in Codes :
       LET rs == RequestsFor(c) IN
       /\ Len(rs) <= 2
       /\ \A k \in 1..Len(rs) : rs[k].limit = 100 /\ rs[k].offset = (k - 1) * 100
       /\ SumLimits(rs) <= 200
  /\ \A i \in Positions : trace[i].nreq <= 2 /\ trace[i].nreq = Len(RequestsFor(trace[i].iata))

\* a code whose two pages were both full and passed the filter whole
C4_Witness ==
  \E i \in Positions :
    /\ trace[i].stored
    /\ trace[i].nreq = 2
    /\ Len(trace[i].raw) = 2 * MaxPageLen
    /\ trace[i].appended = trace[i].raw

\* C5: in a query with two codes, where every request of one code fails and
\* no request of the other fails, the query ends without an exception and
\* the printed result has an entry for every fetched, time-filtered record
\* of the other code, whichever code comes first.
C5_Scenario(a, b) ==
  /\ FetchDone
  /\ Len(query.iatas) = 2
  /\ trace[a].nreq >= 1 /\ trace[a].nerr = trace[a].nreq
  /\ trace[b].nerr = 0

C5_PartialFailureIsolation ==
  \A a, b \in Positions :
    (a # b /\ C5_Scenario(a, b)) =>
      /\ pc # "crashed"
      /\ query.result.kind = "result"
      /\ LET kept == filter_flights_by_time(trace[b].raw, query.time)
         IN \A k \in 1..Len(kept) : HasEntry(kept[k], query.result.groups)

\* C6: after extractor and evaluator ran, clarification_needed holds iff the
\* city list is empty or the bucket is unknown; a text with a known city
\* name or code and one of the three keywords is never asked about.
CityWords == {"delhi", "del", "mumbai", "bom", "bangalore", "blr"}
TimeWords == {"morning", "afternoon", "night"}

HasCityLow(low) == \E w \in CityWords : Contains(w, low)
HasTimeLow(low) == \E w \in TimeWords : Contains(w, low)
HasCity(text) == HasCityLow(lower(text))
HasTime(text) == HasTimeLow(lower(text))

C6_ClarificationIffMissing ==
  state.live =>
    LET low == lower(state.raw_text)
        city == HasCityLow(low)
        time == HasTimeLow(low)
    IN /\ state.clarification_needed <=> (state.cities = <<>> \/ state.time = None)
       /\ state.cities = <<>> <=> ~city
       /\ state.time = None <=> ~time
       /\ (city /\ time) => ~state.clarification_needed

\* a text with a city and a keyword went past the evaluator
C6_Witness ==
  /\ pc = "request"
  /\ HasCity(state.raw_text) /\ HasTime(state.raw_text)
  /\ ~state.clarification_needed

\* C7: the clarifying prompt names exactly the missing fields, the city
\* before the time, joined with ", ".
C7_PromptNamesMissing ==
  (pc = "input" /\ state.live /\ state.clarification_needed) =>
    /\ out.kind = "prompt"
    /\ out.text = state.clarifying_question
    /\ (state.cities = <<>> /\ state.time # None) =>
         out.text = "Could you please specify departure city?"
    /\ (state.cities # <<>> /\ state.time = None) =>
         out.text = "Could you please specify departure time (morning/afternoon/night)?"
    /\ (state.cities = <<>> /\ state.time = None) =>
         out.text = "Could you please specify departure city, departure time (morning/afternoon/night)?"

\* both fields missing and asked for
C7_Witness ==
  /\ pc = "input"
  /\ state.live /\ state.clarification_needed
  /\ state.cities = <<>> /\ state.time = None
  /\ out.kind = "prompt"

\* C8: the filter keeps a record at hour h for morning iff 5 <= h < 12, for
\* afternoon iff 12 <= h < 17, for night iff h >= 17 or h < 5; every hour is
\* in exactly one bucket; a record without a scheduled departure is dropped;
\* the kept records keep their order.
HoursOf(b) ==
  IF b = "morning" THEN {5, 6, 7, 8, 9, 10, 11}
  ELSE IF b = "afternoon" THEN {12, 13, 14, 15, 16}
  ELSE {17, 18, 19, 20, 21, 22, 23, 0, 1, 2, 3, 4}

RECURSIVE KeptAt(_, _, _)
KeptAt(hours, recs, b) ==
  IF hours = <<>> THEN <<>>
  ELSE (IF hours[1] \in HoursOf(b) THEN <<recs[1]>> ELSE <<>>)
       \o KeptAt(Tail(hours), Tail(recs), b)

C8_FilterBoundaries ==
  t_pc = "done" =>
    /\ t_out = KeptAt(t_hours, t_in, t_bucket)
    /\ \A i \in 1..Len(t_in) :
         LET in == {b \in {"morning", "afternoon", "night"} :
                      filter_flights_by_time(<<t_in[i]>>, b) = <<t_in[i]>>}
         IN Cardinality(in) = IF t_hours[i] < 0 THEN 0 ELSE 1

\* hour 5 kept and hour 12 dropped for morning, in a list of two
C8_Witness ==
  /\ t_pc = "done"
  /\ t_bucket = "morning"
  /\ t_hours = <<12, 5>>
  /\ t_out = <<FlightAt(5)>>

\* C9: a record lacking a required nested field in the combined list does
\* not crash the aggregation; it is skipped and every well-formed record
\* still gets its entry.
C9_MalformedRecordSkipped ==
  (FetchDone /\ \E k \in 1..Len(query.flights) : ~WellFormed(query.flights[k])) =>
    /\ pc # "crashed"
    /\ query.result.kind = "result"
    /\ \A k \in 1..Len(query.flights) :
         WellFormed(query.flights[k]) => HasEntry(query.flights[k], query.result.groups)

\* C10: while the accumulated text lacks a city or a keyword, a turn appends
\* the line, extracts from the whole text, prints the prompt and stays in
\* Clarifying; the first turn that completes the text goes on to Ready and,
\* with no further input and no exception, to Resolved.
Resolved(p, st, q) == p = "input" /\ ~st.live /\ q.done

C10_Turn ==
  \E line \in Inputs :
    /\ ~IsExit(line)
    /\ LET text == IF state.live THEN state.raw_text \o " " \o line ELSE line IN
       IF ~(HasCity(text) /\ HasTime(text))
       THEN /\ pc' = "input"
            /\ state'.live
            /\ state'.raw_text = text
            /\ state'.cities = parse_request_text(text)
            /\ state'.time = extract_entities(text)
            /\ state'.clarification_needed
            /\ out' = [kind |-> "prompt", text |-> state'.clarifying_question, groups |-> <<>>]
       ELSE \/ pc' = "request" /\ state'.raw_text = text /\ ~state'.clarification_needed
            \/ Resolved(pc', state', query') /\ out'.kind = "result"

C10_Step ==
  /\ (pc = "input" /\ pc' # "closed") => C10_Turn
  /\ pc = "request" => (pc' = "request" \/ (Resolved(pc', state', query') /\ out'.kind = "result"))

C10_ClarificationLoop == [][C10_Step]_vars

\* C11: a line equal to "exit" or "quit" in any letter case closes the
\* session from Idle and from Clarifying alike; the line is not appended,
\* nothing is extracted, requested or cached for it, and no step follows.
ExitLines == {"exit", "quit", "EXIT", "QUIT", "Exit", "Quit"}

C11_Step ==
  /\ pc # "closed"
  /\ pc = "input" =>
       /\ (line_in' \in ExitLines) <=> (pc' = "closed")
       /\ (line_in' \in ExitLines) =>
            /\ state' = state
            /\ cached_flights' = cached_flights
            /\ reqlog' = reqlog
            /\ trace' = trace
            /\ query' = query

C11_ExitCloses ==
  /\ [](pc = "input" => \A w \in ExitLines \cap Inputs : ENABLED Exit(w))
  /\ [][C11_Step]_vars

\* closed from Clarifying by an upper-case QUIT, the text left as it was
C11_Witness ==
  /\ pc = "closed"
  /\ line_in = "QUIT"
  /\ state.live /\ state.raw_text = "Delhi"

\* C12: after a final answer the conversation state is gone: the next line
\* starts a query whose text, cities, bucket, codes and flight buffer come
\* from that line and the cache only; the cache alone survives.
Members(seq) == {seq[i] : i \in 1..Len(seq)}

C12_Step ==
  (pc = "input" /\ query.done /\ pc' # "closed") =>
    /\ state = NoState
    /\ cached_flights' = cached_flights
    /\ state'.live =>
         /\ state'.raw_text = line_in'
         /\ state'.cities = parse_request_text(line_in')
         /\ state'.time = extract_entities(line_in')
         /\ state'.iatas \in {<<>>, normalize_fields(parse_request_text(line_in'))}
         /\ pc' = "input" => state'.results = <<>>
    /\ \A f \in Members(all_flights_combined') :
         \E c \in Codes :
           LET key == c \o "_" \o extract_entities(line_in') IN
           key \in DOMAIN cached_flights /\ f \in Members(cached_flights[key])

C12_StateDiscarded == [][C12_Step]_vars

\* a second query under way, the cache filled by the first
C12_Witness ==
  /\ pc = "input"
  /\ state.live /\ state.raw_text = "hello"
  /\ "DEL_morning" \in DOMAIN cached_flights
  /\ cached_flights["DEL_morning"] # <<>>

\* C13: whenever clarification_needed is false the clarifying prompt is
\* empty, also when an earlier turn of the query had set one.
C13_PromptCleared == ~state.clarification_needed => state.clarifying_question = ""

\* C14: for a non-empty list of well-formed records the aggregator gives one
\* entry per record, in the group of the record's departure airport, groups
\* in first-seen order of the airports and entries in list order; for the
\* empty list it gives the sentinel "No flights found.".
FirstAt(airport, flights) ==
  CHOOSE i \in 1..Len(flights) :
    /\ flights[i].dep_airport = airport
    /\ \A j \in 1..(i - 1) : flights[j].dep_airport # airport

RECURSIVE EntriesOf(_, _)
EntriesOf(airport, flights) ==
  IF flights = <<>> THEN <<>>
  ELSE (IF flights[1].dep_airport = airport
        THEN <<[airline |-> flights[1].airline_name, flight_iata |-> flights[1].flight_iata,
                departure |-> flights[1].dep_scheduled, arrival |-> flights[1].arr_airport]>>
        ELSE <<>>)
       \o EntriesOf(airport, Tail(flights))

RECURSIVE CountEntries(_)
CountEntries(groups) ==
  IF groups = <<>> THEN 0 ELSE Len(groups[1].entries) + CountEntries(Tail(groups))

C14_OneEntryPerRecord ==
  (t_pc = "done" /\ \A i \in 1..Len(t_in) : t_in[i].airline_name # Missing) =>
    /\ t_out.kind = "result"
    /\ t_in = <<>> => (t_out.text = "No flights found." /\ t_out.groups = <<>>)
    /\ t_in # <<>> =>
         LET gs == t_out.groups IN
         /\ t_out.text = ""
         /\ CountEntries(gs) = Len(t_in)
         /\ {gs[g].origin : g \in 1..Len(gs)} = {t_in[i].dep_airport : i \in 1..Len(t_in)}
         /\ \A g, h \in 1..Len(gs) :
              g < h => FirstAt(gs[g].origin, t_in) < FirstAt(gs[h].origin, t_in)
         /\ \A g \in 1..Len(gs) : gs[g].entries = EntriesOf(gs[g].origin, t_in)

\* two airports, the second seen first, and the same flight twice
C14_Witness ==
  /\ t_pc = "done"
  /\ Len(t_in) = 3
  /\ t_in[1] = t_in[3]
  /\ t_in[1].dep_airport = "BOM Intl" /\ t_in[2].dep_airport = "DEL Intl"
  /\ Len(t_out.groups) = 2
  /\ t_out.groups[1].origin = "BOM Intl"
  /\ Len(t_out.groups[1].entries) = 2

\* C15: within the pagination of one code, page 2 is requested only after
\* page 1 came back with at least one record left by the filter; an error or
\* a page with nothing left ends the pagination of the code at once, with no
\* second request for the failed page, and the records of the earlier pages
\* are what the code contributes.
C15_AtPageTwo ==
  (pc = "request" /\ page = 2) =>
    LET e == trace[Len(trace)] IN
    /\ e.nreq = 1 /\ e.nerr = 0
    /\ reqlog[Len(reqlog)] = [iata |-> state.iatas[idx], limit |-> PageLimit, offset |-> 0]
    /\ flights_data # <<>>
    /\ flights_data = filter_flights_by_time(e.raw, state.time)

C15_Step ==
  pc = "request" =>
    LET k == Len(trace)
        e == trace'[k]
        page_raw == SubSeq(e.raw, Len(trace[k].raw) + 1, Len(e.raw))
        kept == filter_flights_by_time(page_raw, state.time)
        over == /\ e.stored
                /\ pc' = "request" => idx' > idx
    IN /\ reqlog' = Append(reqlog, [iata |-> state.iatas[idx], limit |-> PageLimit,
                                     offset |-> (page - 1) * PageLimit])
       /\ e.nreq = page
       /\ e.nerr = 1 => (over /\ e.appended = flights_data)
       /\ (e.nerr = 0 /\ kept = <<>>) => (over /\ e.appended = flights_data)
       /\ (e.nerr = 0 /\ kept # <<>> /\ page = 1) =>
            /\ ~e.stored
            /\ pc' = "request" /\ idx' = idx /\ page' = 2
            /\ flights_data' = flights_data \o kept
       /\ (e.nerr = 0 /\ kept # <<>> /\ page = 2) =>
            (over /\ e.appended = flights_data \o kept)

C15_Pagination == [](C15_AtPageTwo) /\ [][C15_Step]_vars

\* page 2 failed and the record of page 1 was kept
C15_Witness ==
  \E k \in 1..Len(trace) :
    /\ trace[k].nreq = 2 /\ trace[k].nerr = 1
    /\ trace[k].stored
    /\ trace[k].appended # <<>>

\* C16: when the pagination of a fetched code ends, by the page cap, an
\* empty filtered page or an error, the cache holds under the code's key
\* exactly the records accumulated in this fetch, in place of any earlier
\* entry, and the entries of all other keys are as before.
C16_Stored ==
  \A k \in 1..Len(trace) :
    trace[k].stored =>
      /\ trace[k].fetched
      /\ trace[k].key \in DOMAIN cached_flights
      /\ cached_flights[trace[k].key] = trace[k].appended

C16_Step ==
  pc = "request" =>
    LET k == Len(trace)
        key == state.iatas[idx] \o "_" \o state.time
    IN /\ trace[k].key = key /\ ~trace[k].stored
       /\ trace'[k].stored =>
            /\ DOMAIN cached_flights' = DOMAIN cached_flights \cup {key}
            /\ cached_flights'[key] = trace'[k].appended
            /\ \A o \in DOMAIN cached_flights : o # key => cached_flights'[o] = cached_flights[o]
       /\ ~trace'[k].stored => cached_flights' = cached_flights

C16_MissStores == [](C16_Stored) /\ [][C16_Step]_vars

\* an entry that held the empty list, replaced by the record of a new
\* fetch, with the entry of another key in the cache
C16_Witness ==
  \E k \in 1..Len(trace) :
    /\ trace[k].stored /\ trace[k].present
    /\ trace[k].appended # <<>>
    /\ cached_flights[trace[k].key] = trace[k].appended

\* C17: every cache entry is keyed by a location code and one of the three
\* buckets; every record under (code, bucket) is a record the provider gives
\* for that departure code and its hour is in the bucket; an entry's
\* sequence changes only in the step that ends a fresh fetch for its key.
Buckets == {"morning", "afternoon", "night"}

C17_Entries ==
  \A key \in DOMAIN cached_flights :
    \E c \in Codes, b \in Buckets :
      /\ key = c \o "_" \o b
      /\ \A f \in Members(cached_flights[key]) :
           /\ f \in ProviderRecords(c)
           /\ f.dep_iata = c
           /\ IsoHour(f.dep_scheduled) \in HoursOf(b)

C17_Step ==
  /\ DOMAIN cached_flights \subseteq DOMAIN cached_flights'
  /\ \A key \in DOMAIN cached_flights' :
       (key \notin DOMAIN cached_flights \/ cached_flights'[key] # cached_flights[key]) =>
         /\ pc = "request"
         /\ key = state.iatas[idx] \o "_" \o state.time
         /\ trace[Len(trace)].fetched /\ trace[Len(trace)].nreq + 1 = trace'[Len(trace)].nreq
         /\ trace'[Len(trace)].stored
         /\ Members(cached_flights'[key]) \subseteq
              Members(filter_flights_by_time(trace'[Len(trace)].raw, state.time))

C17_CacheEntries == [](C17_Entries) /\ [][C17_Step]_vars

\* a second query served from an entry that a fetch had written
C17_Witness ==
  /\ pc = "input"
  /\ "DEL_morning" \in DOMAIN cached_flights
  /\ cached_flights["DEL_morning"] # <<>>
  /\ \E k \in 1..Len(trace) :
       /\ trace[k].key = "DEL_morning"
       /\ trace[k].present /\ ~trace[k].fetched
       /\ trace[k].cached = cached_flights["DEL_morning"]

\* C18: the bucket of an accumulated text is morning if the text has
\* "morning", whatever else it has and wherever the word stands; otherwise
\* afternoon if it has "afternoon"; otherwise night if it has "night";
\* otherwise unknown. A second run of the extraction on the same text gives
\* the same cities and bucket.
Typed(w) == \E i \in 1..Len(t_hours) : t_hours[i] = w

C18_BucketPriority ==
  /\ t_pc \in {"once", "twice"} =>
       /\ t_out.raw_text = t_in
       /\ t_out.time = IF Typed("Morning") THEN "morning"
                       ELSE IF Typed("afternoon") THEN "afternoon"
                       ELSE IF Typed("NIGHT") THEN "night"
                       ELSE None
       /\ t_bucket[Len(t_bucket)] = [cities |-> t_out.cities, time |-> t_out.time]
  /\ t_pc = "twice" => t_bucket[1] = t_bucket[2]

\* night typed first, morning last, run twice
C18_Witness ==
  /\ t_pc = "twice"
  /\ t_in = "NIGHT Delhi Morning"
  /\ t_out.time = "morning"
  /\ t_out.cities = <<"Delhi">>

\* C19: a turn that ends with a clarifying prompt issues no provider request
\* and leaves the cache as it was; a request is issued and the cache is
\* written only in a turn whose evaluation found no field missing.
C19_AtRequest ==
  pc = "request" =>
    /\ state.live
    /\ ~state.clarification_needed
    /\ missing_fields(state.cities, state.time) = <<>>

C19_Step ==
  /\ (lines' # lines /\ missing_fields(parse_request_text(state'.raw_text),
                                        extract_entities(state'.raw_text)) # <<>>
      /\ state'.live) =>
       /\ out'.kind = "prompt"
       /\ pc' = "input"
       /\ cached_flights' = cached_flights
       /\ reqlog' = <<>>
  /\ (lines' # lines /\ state'.live /\ state'.clarification_needed) =>
       /\ out' = [kind |-> "prompt", text |-> state'.clarifying_question, groups |-> <<>>]
       /\ pc' = "input"
       /\ cached_flights' = cached_flights
       /\ reqlog' = <<>>
  /\ (cached_flights' # cached_flights \/ (reqlog' # reqlog /\ reqlog' # <<>>)) =>
       pc = "request"

C19_ClarifyingTurnFrame == [](C19_AtRequest) /\ [][C19_Step]_vars

\* a prompt for the time while the cache holds the entry of an earlier query
C19_Witness ==
  /\ pc = "input"
  /\ out.kind = "prompt"
  /\ state.live /\ state.clarification_needed
  /\ state.cities = <<"Delhi">> /\ state.time = None
  /\ DOMAIN cached_flights # {}
  /\ reqlog = <<>>

\* C20: within one query the missing fields never grow from turn to turn:
\* the cities found so far stay found and a known bucket stays known
\* (its value may change), until the query is resolved or the session closed.
C20_Step ==
  (state.live /\ state'.live) =>
    /\ Members(state.cities) \subseteq Members(state'.cities)
    /\ state.time # None => state'.time # None
    /\ Members(missing_fields(state'.cities, state'.time))
         \subseteq Members(missing_fields(state.cities, state.time))
    /\ lines' # lines =>
         /\ pc = "input"
         /\ state'.raw_text = state.raw_text \o " " \o line_in'
         /\ state'.cities = parse_request_text(state'.raw_text)
         /\ state'.time = extract_entities(state'.raw_text)

C20_MissingNeverGrows == [][C20_Step]_vars

\* the bucket known as night, then as morning, the city still missing
C20_Witness ==
  /\ pc = "input"
  /\ state.live
  /\ state.raw_text = "night Morning"
  /\ state.time = "morning"
  /\ state.cities = <<>>
  /\ state.clarification_needed

====
